---- MODULE Spec2Model ----
(***************************************************************************)
(* The request helpers of http-utils: the public entry points              *)
(* (HttpReqJSON, HttpReqXML, HttpReqAuth*, HttpReqPostForm*, the file      *)
(* upload variants) and the dispatcher sendHttpReq, in the three files of  *)
(* the repository (src/unnamed/part_000, src/unnamed/part_001,             *)
(* src/http-utils.go).                                                     *)
(*                                                                         *)
(* A call is a goroutine running one entry point.  Header maps and output  *)
(* structures are caller-owned heap objects that calls receive by          *)
(* reference.  The server, the transport and the codecs are the            *)
(* environment: the outcome of client.Do, of ioutil.ReadAll and the        *)
(* content of the response are chosen nondeterministically.                *)
(*                                                                         *)
(* Not modelled: cookies and the custom transport (they never alter what   *)
(* the formulas below read), and time (a client without a timeout is       *)
(* recorded as such, its waiting is not).                                  *)
(***************************************************************************)
EXTENDS Integers, Sequences, FiniteSets, TLC

\* Longest query string (in key=value pairs) a caller passes.
MaxQuery == 2

\* 30 * time.Second, the dispatcher's default timeout (in seconds).
DefaultTimeout == 30

\* response.StatusCode > 399 is a failure.
MaxOKStatus == 399

-----------------------------------------------------------------------------
(* Text: strings whose characters the code inspects are sequences of       *)
(* one-character strings.                                                  *)

Lowers ==
    <<"a","b","c","d","e","f","g","h","i","j","k","l","m",
      "n","o","p","q","r","s","t","u","v","w","x","y","z">>

Uppers ==
    <<"A","B","C","D","E","F","G","H","I","J","K","L","M",
      "N","O","P","Q","R","S","T","U","V","W","X","Y","Z">>

ToUpperCh(ch) ==
    IF \E i \in DOMAIN Lowers : Lowers[i] = ch
    THEN Uppers[CHOOSE i \in DOMAIN Lowers : Lowers[i] = ch]
    ELSE ch

ToLowerCh(ch) ==
    IF \E i \in DOMAIN Uppers : Uppers[i] = ch
    THEN Lowers[CHOOSE i \in DOMAIN Uppers : Uppers[i] = ch]
    ELSE ch

\* strings.ToUpper
ToUpper(s) == [i \in 1..Len(s) |-> ToUpperCh(s[i])]

RECURSIVE TrimLeft(_)
TrimLeft(s) == IF s # <<>> /\ Head(s) = " " THEN TrimLeft(Tail(s)) ELSE s

RECURSIVE TrimRight(_)
TrimRight(s) ==
    IF s # <<>> /\ s[Len(s)] = " " THEN TrimRight(SubSeq(s, 1, Len(s) - 1)) ELSE s

\* strings.TrimSpace
TrimSpace(s) == TrimRight(TrimLeft(s))

\* textproto.CanonicalMIMEHeaderKey, which http.Header.Add applies to the key:
\* the first letter and every letter after a hyphen in upper case, the rest
\* in lower case.
CanonicalMIMEHeaderKey(k) ==
    [i \in 1..Len(k) |->
        IF i = 1 \/ k[i - 1] = "-" THEN ToUpperCh(k[i]) ELSE ToLowerCh(k[i])]

ContentTypeKey == <<"C","o","n","t","e","n","t","-","T","y","p","e">>

AuthorizationKey == <<"A","u","t","h","o","r","i","z","a","t","i","o","n">>

POST == <<"P","O","S","T">>

PUT == <<"P","U","T">>

GET == <<"G","E","T">>

-----------------------------------------------------------------------------
(* The three files and their entry points.                                 *)

Files == {"part_000", "part_001", "http-utils.go"}

GenericEntries == {"HttpReqJSON", "HttpReqXML"}

GenericAuthEntries == {"HttpReqAuthJSON", "HttpReqAuthXML"}

FormEntries == {"HttpReqPostFormJSON", "HttpReqPostFormXML"}

FileEntries == {"HttpReqPostFile", "HttpReqAuthPostFile", "HttpReqAuthPutFile"}

EntryPoints(f) ==
    CASE f = "part_000" ->
            GenericEntries \cup GenericAuthEntries \cup FormEntries \cup FileEntries
      [] f = "part_001" -> GenericEntries \cup GenericAuthEntries \cup FormEntries
      [] OTHER -> GenericEntries

TakesMethod(e) == e \in GenericEntries \cup GenericAuthEntries

TakesToken(e) ==
    e \in GenericAuthEntries \cup {"HttpReqAuthPostFile", "HttpReqAuthPutFile"}

\* The timeout parameter exists in part_000 only.
TakesTimeout(f) == f = "part_000"

\* The codec of the entry point's epilogue.
Codec(e) ==
    IF e \in {"HttpReqXML", "HttpReqAuthXML", "HttpReqPostFormXML"}
    THEN "xml" ELSE "json"

\* writer.FormDataContentType(): the boundary is generated per writer.
FormDataContentType == "multipart/form-data; boundary=B"

\* The content type each entry point writes into the header map.
DefaultContentType(e) ==
    CASE e \in {"HttpReqJSON", "HttpReqAuthJSON"} -> "application/json"
      [] e \in {"HttpReqXML", "HttpReqAuthXML"} -> "text/xml"
      [] e \in FormEntries -> "application/x-www-form-urlencoded"
      [] OTHER -> FormDataContentType

\* HttpReqXML of http-utils.go passes the method on as it got it.
NormalizesMethod(f, e) == ~(f = "http-utils.go" /\ e = "HttpReqXML")

\* method = strings.TrimSpace(strings.ToUpper(method)), or the fixed method
\* of the form and file variants.
NormalizeMethod(f, e, m) ==
    CASE e \in FormEntries \cup {"HttpReqPostFile", "HttpReqAuthPostFile"} -> POST
      [] e = "HttpReqAuthPutFile" -> PUT
      [] NormalizesMethod(f, e) -> TrimSpace(ToUpper(m))
      [] OTHER -> m

\* The multipart body of the file variants: the text fields, the file part
\* and, after writer.Close(), the terminator.
MultipartBody(content) ==
    <<"--B", "field", "--B", "file">> \o content \o <<"--B--">>

\* The body handed to the dispatcher.
OutgoingBody(e, d) == IF e \in FileEntries THEN MultipartBody(d) ELSE d

-----------------------------------------------------------------------------
(* Header maps (map[string]string) and http.Header.                        *)

EmptyMap == <<>>

MapSet(m, k, v) == (k :> v) @@ m

\* The entry point's write of Content-Type into a caller's (non-nil) map:
\* unconditional, except in HttpReqPostFormXML, which writes only if the
\* key is absent.  Go map keys are compared byte by byte.
PrologueWrites(e, m) ==
    e # "HttpReqPostFormXML" \/ ContentTypeKey \notin DOMAIN m

PrologueMap(e, m) ==
    IF PrologueWrites(e, m) THEN MapSet(m, ContentTypeKey, DefaultContentType(e)) ELSE m

\* request.Header.Add(key, value)
HeaderAdd(h, k, v) ==
    LET ck == CanonicalMIMEHeaderKey(k)
    IN  IF ck \in DOMAIN h THEN [h EXCEPT ![ck] = Append(@, v)] ELSE (ck :> <<v>>) @@ h

\* All the values the request carries under a key.
HeaderValues(h, k) ==
    LET ck == CanonicalMIMEHeaderKey(k)
    IN  IF ck \in DOMAIN h THEN h[ck] ELSE <<>>

-----------------------------------------------------------------------------
(* URLs and query strings.  A query is a sequence of <<key, value>> pairs;  *)
(* a value is a sequence of characters and escapes.                        *)

QueryPairs == { <<"b", <<"1">>>>, <<"a", <<"x", "%20", "y">>>> }

Queries == UNION { [1..n -> QueryPairs] : n \in 0..MaxQuery }

InvalidURL == [valid |-> FALSE, hasQuery |-> FALSE, query |-> <<>>]

PlainURL == [valid |-> TRUE, hasQuery |-> FALSE, query |-> <<>>]

URLs == {InvalidURL, PlainURL}
            \cup { [valid |-> TRUE, hasQuery |-> TRUE, query |-> q] : q \in Queries }

\* url.QueryUnescape
QueryUnescape(v) ==
    [i \in 1..Len(v) |-> IF v[i] \in {"+", "%20"} THEN " " ELSE v[i]]

\* url.QueryEscape
QueryEscape(v) == [i \in 1..Len(v) |-> IF v[i] = " " THEN "+" ELSE v[i]]

RECURSIVE ValuesOf(_, _)
ValuesOf(q, k) ==
    IF q = <<>> THEN <<>>
    ELSE (IF Head(q)[1] = k THEN <<QueryUnescape(Head(q)[2])>> ELSE <<>>)
            \o ValuesOf(Tail(q), k)

\* urlTemp.Query(): url.Values, key -> values in their order of appearance.
ParseQuery(q) == [k \in {q[i][1] : i \in DOMAIN q} |-> ValuesOf(q, k)]

KeyRank(k) == CHOOSE i \in DOMAIN Lowers : Lowers[i] = k

RECURSIVE SortedKeys(_)
SortedKeys(S) ==
    IF S = {} THEN <<>>
    ELSE LET k == CHOOSE x \in S : \A y \in S : KeyRank(x) <= KeyRank(y)
         IN  <<k>> \o SortedKeys(S \ {k})

RECURSIVE EncodeKeys(_, _)
EncodeKeys(vals, ks) ==
    IF ks = <<>> THEN <<>>
    ELSE [i \in 1..Len(vals[Head(ks)]) |-> <<Head(ks), QueryEscape(vals[Head(ks)][i])>>]
            \o EncodeKeys(vals, Tail(ks))

\* url.Values.Encode(): sorted by key, every value escaped.
Encode(vals) == EncodeKeys(vals, SortedKeys(DOMAIN vals))

\* The canonically re-encoded form of a query.
CanonicalQuery(q) == Encode(ParseQuery(q))

\* url.Parse, used by http.NewRequest and by the dispatcher's re-encode step.
ParseOK(u) == u.valid

\* Lines 269-278 of part_000: the new value of the local urlString.
ReencodedURL(u) ==
    IF u.hasQuery THEN [u EXCEPT !.query = CanonicalQuery(u.query)] ELSE u

-----------------------------------------------------------------------------
(* Errors, byte slices and the codecs.                                     *)

NoBody == [set |-> FALSE, str |-> <<>>]

\* string(data)
StringOf(d) == [set |-> TRUE, str |-> d]

NoErr ==
    [kind |-> "nil", URL |-> PlainURL, HTTPCode |-> 0, Message |-> "",
     Body |-> NoBody, Err |-> "nil"]

\* &ResourceError{URL: urlString, Err: err}
ResourceError(u, cause) ==
    [kind |-> "ResourceError", URL |-> u, HTTPCode |-> 0, Message |-> "",
     Body |-> NoBody, Err |-> cause]

\* A read failure reported without the status code the response carried.
ReadErrorWithoutCode(u, status) == ResourceError(u, "read")

\* &ResourceError{URL: urlString, Err: err, HTTPCode: response.StatusCode}
ReadError(u, status) == [ResourceError(u, "read") EXCEPT !.HTTPCode = status]

\* A status error that echoes the response instead of the request body.
StatusErrorEchoesResponse(u, status, data, buf) ==
    [kind |-> "ResourceError", URL |-> u, HTTPCode |-> status,
     Message |-> "incorrect response.StatusCode", Body |-> StringOf(buf),
     Err |-> "incorrect status code"]

\* The ResourceError of a status code above 399.
StatusError(u, status, data, buf) ==
    [kind |-> "ResourceError", URL |-> u, HTTPCode |-> status,
     Message |-> "incorrect response.StatusCode", Body |-> StringOf(data),
     Err |-> "incorrect status code"]

\* The error json.Unmarshal or xml.Unmarshal returns, as it is.
CodecError(codec) == [NoErr EXCEPT !.kind = "codec", !.Err = codec]

NilBytes == [nil |-> TRUE, bytes |-> <<>>]

Bytes(b) == [nil |-> FALSE, bytes |-> b]

\* What the server may answer to call c: nothing, a JSON document, an XML
\* document.  A document of one format is malformed for the other codec.
ResponseBodies(c) ==
    LET tag == IF c = 1 THEN "r1" ELSE "r2"
    IN  { <<>>, <<"json", tag>>, <<"xml", tag>> }

Statuses == {200, 399, 400, 404}

WellFormed(codec, b) == b # <<>> /\ b[1] = codec

\* The value a well-formed document decodes to.
Decoded(b) == b

ZeroStruct == <<>>

\* An epilogue that decodes whatever the dispatcher returned.
ShouldDecodeIgnoringErr(err, outIsNil, buf) == ~outIsNil /\ Len(buf.bytes) # 0

\* if err != nil { return }; if responseStruct != nil && len(responseBody) != 0
ShouldDecode(err, outIsNil, buf) ==
    err.kind = "nil" /\ ~outIsNil /\ Len(buf.bytes) # 0

\* The timeout of the client the dispatcher builds, in seconds; 0 is Go's
\* "no timeout".
EffectiveTimeout(f, t) ==
    CASE f = "part_000" -> IF t > 0 THEN t ELSE DefaultTimeout
      [] f = "part_001" -> DefaultTimeout
      [] OTHER -> 0

\* http.NewRequest's validMethod: a non-empty token.
ValidMethod(m) == \A i \in DOMAIN m : m[i] # " "

\* A Close written at the end of the function instead of deferred: the
\* early return of a read failure skips it.
CloseWithoutDefer(readOK) == ~readOK

\* defer response.Body.Close(): whether the reader is open after the
\* dispatcher has returned.
DeferredClose(readOK) == FALSE

-----------------------------------------------------------------------------
(* State.                                                                  *)

CallIds == {1, 2}

NilRef == <<"nil", 0>>

\* A caller-owned header map.
ArgMap(i) == <<"arg", i>>

\* A package-level default map used whenever headers is nil.
SharedDefaultMap(c) == <<"own", 1>>

\* headers = map[string]string{"Content-Type": ...}: a new map of the call.
FreshMap(c) == <<"own", c>>

\* A caller-owned output structure.
OutRef(i) == <<"out", i>>

MapIds == {ArgMap(i) : i \in CallIds} \cup {<<"own", c>> : c \in CallIds}

OutIds == {OutRef(i) : i \in CallIds}

VARIABLES
    build,     \* which of the three files is compiled
    calls,     \* the invocations in progress
    args,      \* the arguments of each call
    heap0,     \* the header maps as the callers built them
    heap,      \* the header maps
    structs,   \* the output structures
    fatal,     \* the runtime has aborted the process (concurrent map access)
    pc,        \* where each call is
    st         \* the locals of each call

vars == <<build, calls, args, heap0, heap, structs, fatal, pc, st>>

NoRequest ==
    [built |-> FALSE, method |-> <<>>, hasQuery |-> FALSE, query |-> <<>>,
     header |-> EmptyMap, body |-> <<>>]

NoClient == [built |-> FALSE, timeout |-> 0]

InitLocals ==
    [method |-> <<>>, data |-> <<>>, headers |-> NilRef, client |-> NoClient,
     request |-> NoRequest, todo |-> {}, visited |-> {}, urlString |-> PlainURL,
     status |-> 0, gotResponse |-> FALSE, readerOpen |-> FALSE, doCount |-> 0,
     read |-> "none", body |-> <<>>,
     send |-> [httpStatus |-> 0, buf |-> NilBytes, err |-> NoErr],
     ret |-> [httpStatus |-> 0, buf |-> NilBytes, err |-> NoErr],
     decodeTried |-> FALSE, observed |-> ZeroStruct]

Methods == { <<"g","e","t">>, <<" ","P","o","s","t"," ">> }

Tokens == {"", "Bearer t"}

Timeouts == {-1, 0, 5}

Datas == { <<>>, <<"d">> }

LowerContentTypeKey == <<"c","o","n","t","e","n","t","-","t","y","p","e">>

\* The header maps callers pass.
CallerMaps ==
    { EmptyMap,
      ContentTypeKey :> "text/plain",
      LowerContentTypeKey :> "text/plain",
      AuthorizationKey :> "Basic u" }

\* The argument lists of entry point e of file f.
ArgsOf(f, e, hdrRefs, outRefs, urls, datas) ==
    { [entry |-> e, method |-> m, url |-> u, token |-> tk, data |-> d,
       headers |-> h, timeout |-> t, out |-> o] :
        m \in (IF TakesMethod(e) THEN Methods ELSE {<<>>}),
        u \in urls,
        tk \in (IF TakesToken(e) THEN Tokens ELSE {""}),
        d \in datas,
        h \in hdrRefs,
        t \in (IF TakesTimeout(f) THEN Timeouts ELSE {0}),
        o \in outRefs }

InitCommon ==
    /\ heap = [m \in MapIds |-> IF m \in DOMAIN heap0 THEN heap0[m] ELSE EmptyMap]
    /\ structs = [o \in OutIds |-> ZeroStruct]
    /\ fatal = FALSE
    /\ pc = [c \in calls |-> "entry"]
    /\ st = [c \in calls |-> InitLocals]

\* One call, of any entry point of any file, with any arguments.
Init ==
    /\ build \in Files
    /\ calls = {1}
    /\ heap0 \in [{ArgMap(1)} -> CallerMaps]
    /\ \E e \in EntryPoints(build) :
          args \in [calls -> ArgsOf(build, e, {NilRef, ArgMap(1)},
                                    {NilRef, OutRef(1)}, URLs, Datas)]
    /\ InitCommon

-----------------------------------------------------------------------------
(* The steps of a call.                                                    *)

Others(c) == calls \ {c}

\* Another call is about to write, or is writing or reading, the map this
\* step accesses: a data race on a Go map, which the runtime may answer by
\* aborting the process.
RacesOnMap(c, r, writes) ==
    \E d \in Others(c) :
        \/ /\ pc[d] = "entry"
           /\ args[d].headers = r
           /\ (writes \/ PrologueWrites(args[d].entry, heap[r]))
        \/ /\ pc[d] = "headers"
           /\ st[d].headers = r
           /\ writes

\* The entry point up to its call of sendHttpReq: the method, the body and
\* the Content-Type of the header map.
Prologue(c) ==
    /\ pc[c] = "entry"
    /\ ~fatal
    /\ LET a == args[c]
           r == IF a.headers = NilRef THEN FreshMap(c) ELSE a.headers
           m == IF a.headers = NilRef THEN EmptyMap ELSE heap[r]
           writes == a.headers = NilRef \/ PrologueWrites(a.entry, m)
       IN  /\ heap' = [heap EXCEPT ![r] = IF a.headers = NilRef
                                            THEN PrologueMap(a.entry, EmptyMap)
                                            ELSE PrologueMap(a.entry, m)]
           /\ st' = [st EXCEPT ![c].method = NormalizeMethod(build, a.entry, a.method),
                               ![c].data = OutgoingBody(a.entry, a.data),
                               ![c].headers = r]
           /\ fatal' \in (IF RacesOnMap(c, r, writes) THEN BOOLEAN ELSE {FALSE})
    /\ pc' = [pc EXCEPT ![c] = "send"]
    /\ UNCHANGED <<build, calls, args, heap0, structs>>

\* sendHttpReq: the client and http.NewRequest.
NewRequest(c) ==
    /\ pc[c] = "send"
    /\ ~fatal
    /\ LET s == st[c]
           u == args[c].url
           cl == [built |-> TRUE, timeout |-> EffectiveTimeout(build, args[c].timeout)]
       IN  IF ParseOK(u) /\ ValidMethod(s.method)
           THEN /\ st' = [st EXCEPT
                     ![c].client = cl,
                     ![c].urlString = u,
                     ![c].request =
                         [built |-> TRUE,
                          method |-> IF s.method = <<>> THEN GET ELSE s.method,
                          hasQuery |-> u.hasQuery, query |-> u.query,
                          header |-> EmptyMap, body |-> s.data],
                     ![c].todo = DOMAIN heap[s.headers],
                     ![c].visited = {}]
                /\ pc' = [pc EXCEPT ![c] = "headers"]
           ELSE /\ st' = [st EXCEPT
                     ![c].client = cl,
                     ![c].urlString = u,
                     ![c].send = [httpStatus |-> 0, buf |-> NilBytes,
                                  err |-> ResourceError(u, "new request")]]
                /\ pc' = [pc EXCEPT ![c] = "epilogue"]
    /\ UNCHANGED <<build, calls, args, heap0, heap, structs, fatal>>

\* One iteration of `for key, value := range headers`: Go visits the keys
\* in an unspecified order.
HeaderStep(c) ==
    /\ pc[c] = "headers"
    /\ ~fatal
    /\ LET s == st[c]
       IN  \E k \in DOMAIN heap[s.headers] \ s.visited :
              /\ st' = [st EXCEPT
                    ![c].request.header = HeaderAdd(@, k, heap[s.headers][k]),
                    ![c].visited = @ \cup {k}]
              /\ fatal' \in (IF RacesOnMap(c, s.headers, FALSE) THEN BOOLEAN ELSE {FALSE})
    /\ UNCHANGED <<build, calls, args, heap0, heap, structs, pc>>

\* The token of the dispatcher: request.Header.Add("Authorization", token).
AddToken(h, token) == IF token # "" THEN HeaderAdd(h, AuthorizationKey, token) ELSE h

\* What the re-encode step of the dispatcher changes of the request that is
\* to be sent: nothing, it assigns the local urlString.
RequestAfterReencode(req) == req

\* The end of the range loop (a key inserted since the loop began may be
\* skipped), the token and the re-encoding of the query.
HeadersDone(c) ==
    /\ pc[c] = "headers"
    /\ ~fatal
    /\ LET s == st[c]
           req == [s.request EXCEPT !.header = AddToken(@, args[c].token)]
       IN  /\ s.todo \subseteq s.visited
           /\ IF s.urlString.hasQuery /\ ~ParseOK(s.urlString)
              THEN /\ st' = [st EXCEPT
                        ![c].request = req,
                        ![c].send = [httpStatus |-> 0, buf |-> NilBytes,
                                     err |-> ResourceError(s.urlString, "parse")]]
                   /\ pc' = [pc EXCEPT ![c] = "epilogue"]
              ELSE /\ st' = [st EXCEPT
                        ![c].request = RequestAfterReencode(req),
                        ![c].urlString = ReencodedURL(s.urlString)]
                   /\ pc' = [pc EXCEPT ![c] = "do"]
    /\ UNCHANGED <<build, calls, args, heap0, heap, structs, fatal>>

\* client.Do(request): a transport failure, or a response with a status.
Do(c) ==
    /\ pc[c] = "do"
    /\ ~fatal
    /\ \E outcome \in {0} \cup Statuses :
          IF outcome = 0
          THEN /\ st' = [st EXCEPT
                    ![c].doCount = @ + 1,
                    ![c].send = [httpStatus |-> 0, buf |-> NilBytes,
                                 err |-> ResourceError(st[c].urlString, "transport")]]
               /\ pc' = [pc EXCEPT ![c] = "epilogue"]
          ELSE /\ st' = [st EXCEPT
                    ![c].doCount = @ + 1,
                    ![c].status = outcome,
                    ![c].gotResponse = TRUE,
                    ![c].readerOpen = TRUE]
               /\ pc' = [pc EXCEPT ![c] = "read"]
    /\ UNCHANGED <<build, calls, args, heap0, heap, structs, fatal>>

\* ioutil.ReadAll(response.Body), the status check and the return of the
\* dispatcher, at which the deferred Close runs.
ReadAll(c) ==
    /\ pc[c] = "read"
    /\ ~fatal
    /\ LET s == st[c]
       IN  \E readOK \in BOOLEAN, b \in ResponseBodies(c) :
              /\ readOK \/ b = <<>>
              /\ st' = [st EXCEPT
                    ![c].readerOpen = DeferredClose(readOK),
                    ![c].read = IF readOK THEN "ok" ELSE "failed",
                    ![c].body = b,
                    ![c].send =
                        IF ~readOK
                        THEN [httpStatus |-> 0, buf |-> NilBytes,
                              err |-> ReadError(s.urlString, s.status)]
                        ELSE IF s.status > MaxOKStatus
                        THEN [httpStatus |-> s.status, buf |-> Bytes(b),
                              err |-> StatusError(s.urlString, s.status, s.data, b)]
                        ELSE [httpStatus |-> s.status, buf |-> Bytes(b), err |-> NoErr]]
    /\ pc' = [pc EXCEPT ![c] = "epilogue"]
    /\ UNCHANGED <<build, calls, args, heap0, heap, structs, fatal>>

\* The entry point after sendHttpReq: return on an error, else decode.
Epilogue(c) ==
    /\ pc[c] = "epilogue"
    /\ ~fatal
    /\ LET s == st[c]
           a == args[c]
           codec == Codec(a.entry)
       IN  IF ShouldDecode(s.send.err, a.out = NilRef, s.send.buf)
           THEN /\ st' = [st EXCEPT
                     ![c].decodeTried = TRUE,
                     ![c].ret = [s.send EXCEPT !.err =
                                    IF WellFormed(codec, s.send.buf.bytes)
                                    THEN NoErr ELSE CodecError(codec)]]
                /\ structs' = IF WellFormed(codec, s.send.buf.bytes)
                              THEN [structs EXCEPT ![a.out] = Decoded(s.send.buf.bytes)]
                              ELSE structs
           ELSE /\ st' = [st EXCEPT ![c].ret = s.send]
                /\ UNCHANGED structs
    /\ pc' = [pc EXCEPT ![c] = "return"]
    /\ UNCHANGED <<build, calls, args, heap0, heap, fatal>>

\* The return of the entry point: the caller reads its output structure.
Return(c) ==
    /\ pc[c] = "return"
    /\ ~fatal
    /\ st' = [st EXCEPT ![c].observed =
                 IF args[c].out = NilRef THEN ZeroStruct ELSE structs[args[c].out]]
    /\ pc' = [pc EXCEPT ![c] = "done"]
    /\ UNCHANGED <<build, calls, args, heap0, heap, structs, fatal>>

Next ==
    \/ \E c \in calls : Prologue(c)
    \/ \E c \in calls : NewRequest(c)
    \/ \E c \in calls : HeaderStep(c)
    \/ \E c \in calls : HeadersDone(c)
    \/ \E c \in calls : Do(c)
    \/ \E c \in calls : ReadAll(c)
    \/ \E c \in calls : Epilogue(c)
    \/ \E c \in calls : Return(c)

Spec == Init /\ [][Next]_vars

\* Two concurrent calls of part_000, which may have been handed the same
\* header map or the same output structure.
ConcInit ==
    /\ build = "part_000"
    /\ calls = CallIds
    /\ \E m \in {EmptyMap, ContentTypeKey :> "text/plain"} :
          heap0 = [r \in {ArgMap(1), ArgMap(2)} |-> m]
    /\ \E e1 \in {"HttpReqJSON", "HttpReqPostFormXML"}, e2 \in {"HttpReqXML", "HttpReqPostFormXML"} :
       \E a1 \in ArgsOf(build, e1, {NilRef, ArgMap(1)}, {NilRef, OutRef(1)},
                        {PlainURL}, {<<>>}),
          a2 \in ArgsOf(build, e2, {NilRef, ArgMap(1), ArgMap(2)},
                        {NilRef, OutRef(1), OutRef(2)}, {PlainURL}, {<<>>}) :
          /\ a1.method \in {<<>>, <<"g","e","t">>} /\ a1.timeout = 0
          /\ a2.method \in {<<>>, <<"g","e","t">>} /\ a2.timeout = 0
          /\ args = (1 :> a1) @@ (2 :> a2)
    /\ InitCommon

SpecConc == ConcInit /\ [][Next]_vars

-----------------------------------------------------------------------------
(* Properties.                                                             *)

\* The dispatcher has returned to the entry point.
SendReturned(c) == pc[c] \in {"epilogue", "return", "done"}

\* The entry point has computed its results.
EntryReturned(c) == pc[c] \in {"return", "done"}

\* The request has been handed to client.Do.
Dispatched(c) == st[c].doCount > 0

\* request.Header.Get(key)
HeaderGet(h, k) == IF HeaderValues(h, k) = <<>> THEN "" ELSE Head(HeaderValues(h, k))

\* The caller's map as the call received it (empty for nil).
CallerMap(c) == IF args[c].headers = NilRef THEN EmptyMap ELSE heap0[args[c].headers]

\* The values the caller's map holds under a header, whatever the spelling.
CallerValues(c, key) ==
    { CallerMap(c)[k] : k \in { x \in DOMAIN CallerMap(c) : CanonicalMIMEHeaderKey(x) = key } }

\* C1: whenever the response was read in full and its status is >= 400, the
\* dispatcher (and so the entry point) returns the status, the response
\* bytes, and a ResourceError with that status whose Body is the string form
\* of the outgoing request body.
C1_StatusErrorEchoesRequest ==
    \A c \in calls :
        (SendReturned(c) /\ st[c].read = "ok" /\ st[c].status >= 400) =>
            LET r == st[c].send
            IN  /\ r.err.kind = "ResourceError"
                /\ r.err.HTTPCode = st[c].status
                /\ r.err.Body = StringOf(st[c].request.body)
                /\ st[c].request.body = OutgoingBody(args[c].entry, args[c].data)
                /\ r.httpStatus = st[c].status
                /\ r.buf = Bytes(st[c].body)
                /\ (EntryReturned(c) => st[c].ret = r)

C1_Witness ==
    \E c \in calls :
        /\ pc[c] = "done"
        /\ st[c].read = "ok"
        /\ st[c].status >= 400
        /\ st[c].body # <<>>
        /\ st[c].request.body # <<>>

\* C2: the query of the request handed to client.Do is the canonical
\* re-encoding of the query of the URL the caller passed, and a URL that
\* does not parse is answered by a ResourceError without a dispatch.
C2_DispatchedQueryCanonical ==
    \A c \in calls :
        /\ (Dispatched(c) /\ args[c].url.hasQuery) =>
              st[c].request.query = CanonicalQuery(args[c].url.query)
        /\ (SendReturned(c) /\ ~ParseOK(args[c].url)) =>
              (~Dispatched(c) /\ st[c].send.err.kind = "ResourceError")

\* The content type C3 expects of a call.
ExpectedContentTypes(c) ==
    IF /\ args[c].entry = "HttpReqPostFormXML"
       /\ CallerValues(c, ContentTypeKey) # {}
    THEN CallerValues(c, ContentTypeKey)
    ELSE {DefaultContentType(args[c].entry)}

\* C3: the Content-Type of the dispatched request is the variant's default,
\* whatever the caller had set, except that HttpReqPostFormXML keeps a
\* content type the caller's map already sets.
C3_EffectiveContentType ==
    \A c \in calls :
        Dispatched(c) =>
            HeaderGet(st[c].request.header, ContentTypeKey) \in ExpectedContentTypes(c)

\* C4: decoding is attempted exactly when the dispatcher returned no error,
\* the output structure is not nil and the body is not empty; a well-formed
\* body gives a nil error and the decoded structure, a malformed one the
\* codec's own error with the status and the bytes kept.
C4_DecodeAfterSuccessOnly ==
    \A c \in calls :
        EntryReturned(c) =>
            LET s == st[c]
                codec == Codec(args[c].entry)
            IN  /\ s.decodeTried <=>
                      (s.send.err = NoErr /\ args[c].out # NilRef /\ s.body # <<>>)
                /\ (s.send.err # NoErr) => (~s.decodeTried /\ s.ret = s.send)
                /\ (s.decodeTried /\ WellFormed(codec, s.body)) =>
                      /\ s.ret.err = NoErr
                      /\ (pc[c] = "done" => s.observed = Decoded(s.body))
                /\ (s.decodeTried /\ ~WellFormed(codec, s.body)) =>
                      s.ret.err = CodecError(codec)
                /\ s.decodeTried =>
                      /\ s.status \in 200..MaxOKStatus
                      /\ s.ret.httpStatus = s.status
                      /\ s.ret.buf = Bytes(s.body)

C4_Witness ==
    \E c \in calls :
        /\ pc[c] = "done"
        /\ st[c].decodeTried
        /\ ~WellFormed(Codec(args[c].entry), st[c].body)
        /\ st[c].status = MaxOKStatus

\* C5: a failure before any response gives status 0, nil bytes and a
\* ResourceError with HTTPCode 0 and a cause; a failure while reading the
\* body gives a ResourceError with the status of the response; HTTPCode is 0
\* only when no response was obtained.
C5_ErrorCodes ==
    \A c \in calls :
        SendReturned(c) =>
            LET s == st[c]
            IN  /\ ~s.gotResponse =>
                      /\ s.send.httpStatus = 0
                      /\ s.send.buf = NilBytes
                      /\ s.send.err.kind = "ResourceError"
                      /\ s.send.err.HTTPCode = 0
                      /\ s.send.err.Err # "nil"
                /\ s.read = "failed" =>
                      /\ s.send.err.kind = "ResourceError"
                      /\ s.send.err.HTTPCode = s.status
                      /\ s.send.err.Err # "nil"
                /\ (s.send.err.kind = "ResourceError" /\ s.send.err.HTTPCode = 0) =>
                      ~s.gotResponse

C5_Witness ==
    \E c \in calls : pc[c] = "done" /\ st[c].read = "failed" /\ st[c].status = 200

\* C6: with a non-empty token the Authorization of the dispatched request is
\* the token; without one the request carries only what the caller's map
\* held.
C6_AuthorizationIsToken ==
    \A c \in calls :
        Dispatched(c) =>
            IF args[c].token # ""
            THEN HeaderGet(st[c].request.header, AuthorizationKey) = args[c].token
            ELSE \A i \in DOMAIN HeaderValues(st[c].request.header, AuthorizationKey) :
                    HeaderValues(st[c].request.header, AuthorizationKey)[i]
                        \in CallerValues(c, AuthorizationKey)

\* The caller-specified timeout when positive, the default otherwise.
ExpectedTimeout(c) == IF args[c].timeout > 0 THEN args[c].timeout ELSE DefaultTimeout

\* C8: the client that executes the request has the caller's timeout when
\* that is positive and the default of 30 seconds otherwise; never none.
C8_ClientHasTimeout ==
    \A c \in calls :
        Dispatched(c) =>
            /\ st[c].client.built
            /\ st[c].client.timeout = ExpectedTimeout(c)
            /\ st[c].client.timeout > 0

\* C9: the method of the dispatched request is the upper-case form of the
\* caller's method; the form variants send POST, the file variants POST or
\* PUT.
C9_MethodUppercased ==
    \A c \in calls :
        Dispatched(c) =>
            LET e == args[c].entry
                m == st[c].request.method
            IN  /\ TakesMethod(e) => m = TrimSpace(ToUpper(args[c].method))
                /\ e \in FormEntries => m = POST
                /\ e \in FileEntries => m \in {POST, PUT}

\* C10: once the dispatcher has returned, no response body reader is open,
\* whether or not a response was obtained, and client.Do ran at most once.
C10_ReaderReleased ==
    \A c \in calls :
        /\ st[c].doCount <= 1
        /\ ~st[c].gotResponse => ~st[c].readerOpen
        /\ SendReturned(c) => ~st[c].readerOpen

C10_Witness ==
    \E c \in calls :
        /\ pc[c] = "done"
        /\ st[c].gotResponse
        /\ st[c].read = "failed"
        /\ st[c].doCount = 1

RECURSIVE AddAll(_, _, _)
\* The headers a range loop over map m can build, one per order of visit.
AddAll(h, m, keys) ==
    IF keys = {} THEN {h}
    ELSE UNION { AddAll(HeaderAdd(h, k, m[k]), m, keys \ {k}) : k \in keys }

\* The headers of the request call c dispatches when it runs alone.
SoloHeaders(c) ==
    LET m == PrologueMap(args[c].entry, CallerMap(c))
    IN  { AddToken(h, args[c].token) : h \in AddAll(EmptyMap, m, DOMAIN m) }

\* Call c behaved as it would have alone: the request it dispatched is one
\* it dispatches alone, and the structure it hands back holds what it
\* decoded.
RanAsAlone(c) ==
    /\ Dispatched(c) => st[c].request.header \in SoloHeaders(c)
    /\ (/\ pc[c] = "done"
        /\ st[c].decodeTried
        /\ WellFormed(Codec(args[c].entry), st[c].body)) =>
            st[c].observed = Decoded(st[c].body)

\* No two calls were handed the same header map or output structure.
NoSharedArguments ==
    \A c, d \in calls :
        c # d =>
            /\ args[c].headers = args[d].headers => args[c].headers = NilRef
            /\ args[c].out = args[d].out => args[c].out = NilRef

\* C7 as stated: concurrent calls never interfere, whatever they are handed.
C7_NeverInterfere == \A c \in calls : RanAsAlone(c)

\* C7, amended: concurrent calls that were handed distinct (or nil) header
\* maps and output structures do not interfere, and the runtime never
\* aborts them for a concurrent map access.
C7_IsolatedWithoutSharing ==
    NoSharedArguments => (~fatal /\ \A c \in calls : RanAsAlone(c))

C7_Witness ==
    /\ NoSharedArguments
    /\ \A c \in calls :
          /\ pc[c] = "done"
          /\ args[c].headers # NilRef
          /\ args[c].out # NilRef
          /\ Dispatched(c)
          /\ st[c].decodeTried
          /\ WellFormed(Codec(args[c].entry), st[c].body)
    /\ Cardinality(calls) > 1

====
